---- MODULE Spec2Model ----
(***************************************************************************)
(* Model of backend/python/detect.py: the frame loop of                    *)
(* process_video_stream, the anomaly rule, the frame persister, the alert  *)
(* payload and the exit paths of the main block.                           *)
(*                                                                         *)
(* Numbers with a fractional part are kept as scaled integers:             *)
(*   confidence          in units of 10^-5                                 *)
(*   box coordinates     in tenths of a pixel                              *)
(*   timestamps          in thousandths of a millisecond                   *)
(***************************************************************************)
EXTENDS Integers, Sequences, FiniteSets, TLC

\* ---------------------------------------------------------------- bounds
MaxFrames == 5
MaxStride == 2
\* presentation time between two frames of the source, in thousandths of ms
FramePeriod == 33367

\* ------------------------------------------------------ program constants
TARGET_CLASS_NAME == "person"
MAX_ALLOWED_TARGETS == 1
DEFAULT_BOX_COLOR == <<255, 255, 0>>
ANOMALY_BOX_COLOR == <<0, 0, 255>>

\* ------------------------------------------------------------ detections
\* One row of inference_results.pandas().xyxy[0].
Det(n, c, x1, y1, x2, y2) ==
    [name |-> n, confidence |-> c, xmin |-> x1, ymin |-> y1, xmax |-> x2, ymax |-> y2]

P1 == Det("person", 91234, 107, 202, 509, 805)
P2 == Det("person", 45675, 600, 15, 999, 400)
P3 == Det("person", 40001, 0, 0, 55, 66)
Q1 == Det("Person", 80000, 300, 300, 400, 400)
K1 == Det("car", 66666, 120, 340, 560, 780)
\* A row whose corners are out of order and partly outside the frame.
M1 == Det("person", 50000, 3000, 500, 100, 200)

\* The detection tables the Detector returns in runs of the frame loop.
FrameDetections ==
    { <<>>, <<P1, Q1>>, <<P1, K1, P2>>, <<P2, P1, P3>> }

\* int(x) of Python on a number kept in tenths: truncation toward zero.
IntOfTenths(t) == IF t >= 0 THEN t \div 10 ELSE -((-t) \div 10)

\* round(float(c), 4) on a confidence kept in units of 10^-5; the result is in
\* units of 10^-4 (ties go to the even neighbour).
Round4(c) ==
    LET q == c \div 10
        r == c % 10
    IN  IF r < 5 THEN q
        ELSE IF r > 5 THEN q + 1
        ELSE IF q % 2 = 0 THEN q ELSE q + 1

\* The dictionary check_anomaly_rules appends for one triggering row.
TriggeringObject(detection_row) ==
    [class_name |-> detection_row.name,
     confidence |-> Round4(detection_row.confidence),
     xmin |-> IntOfTenths(detection_row.xmin),
     ymin |-> IntOfTenths(detection_row.ymin),
     xmax |-> IntOfTenths(detection_row.xmax),
     ymax |-> IntOfTenths(detection_row.ymax)]

\* Variant: the filter on the class name is dropped.
specific_class_detections_unfiltered(all_detections_df) == all_detections_df

\* all_detections_df[all_detections_df['name'] == TARGET_CLASS_NAME]
specific_class_detections(all_detections_df) ==
    SelectSeq(all_detections_df, LAMBDA d : d.name = TARGET_CLASS_NAME)

\* Variant: the limit is inclusive.
anomaly_is_triggered_inclusive(count_of_target_class) ==
    count_of_target_class >= MAX_ALLOWED_TARGETS

\* count_of_target_class > MAX_ALLOWED_TARGETS
anomaly_is_triggered(count_of_target_class) ==
    count_of_target_class > MAX_ALLOWED_TARGETS

check_anomaly_rules(all_detections_df) ==
    LET specific == specific_class_detections(all_detections_df)
        count    == Len(specific)
        trig     == anomaly_is_triggered(count)
    IN  [is_anomaly |-> trig,
         count_of_target_class |-> count,
         triggering_objects_list |->
             IF trig
             THEN [i \in 1..count |-> TriggeringObject(specific[i])]
             ELSE <<>>]

\* The verdict before any frame has been evaluated.
NoVerdict ==
    [is_anomaly |-> FALSE, count_of_target_class |-> 0, triggering_objects_list |-> <<>>]

\* ------------------------------------------------------------- annotator
\* Variant: the verdict of the frame is not consulted.
is_anomaly_trigger_fn_by_class(det_row, is_anomaly_present) ==
    det_row.name = TARGET_CLASS_NAME

\* is_anomaly_trigger_fn of process_video_stream (the lambda handed to the
\* annotator).
is_anomaly_trigger_fn(det_row, is_anomaly_present) ==
    det_row.name = TARGET_CLASS_NAME /\ is_anomaly_present

\* Resolution of the source (CAP_PROP_FRAME_WIDTH, CAP_PROP_FRAME_HEIGHT), in
\* pixels.
frame_width  == 256
frame_height == 128

\* cv2.getTextSize(label, FONT, FONT_SCALE, FONT_THICKNESS): the height and the
\* baseline of a line of text and the advance of one glyph, in pixels.
label_height  == 13
baseline      == 5
glyph_advance == 11

\* len(f"{name} {confidence:.2f}") for a confidence in [0, 1]: the name, a
\* space and four characters of number.
label_length(name) == Len(name) + 5
label_width(name) == label_length(name) * glyph_advance

\* max(a, b) and min(a, b)
Max(a, b) == IF a >= b THEN a ELSE b
Min(a, b) == IF a <= b THEN a ELSE b

\* Variant: the corners are ordered and brought inside the frame before
\* drawing.
box_corners_clamped(detection_row) ==
    LET x1 == IntOfTenths(detection_row.xmin)
        y1 == IntOfTenths(detection_row.ymin)
        x2 == IntOfTenths(detection_row.xmax)
        y2 == IntOfTenths(detection_row.ymax)
        cx(v) == Max(0, Min(v, frame_width - 1))
        cy(v) == Max(0, Min(v, frame_height - 1))
    IN  << cx(Min(x1, x2)), cy(Min(y1, y2)), cx(Max(x1, x2)), cy(Max(y1, y2)) >>

\* xmin, ymin, xmax, ymax = int(row['xmin']), ...: the corners handed to
\* cv2.rectangle.
box_corners(detection_row) ==
    << IntOfTenths(detection_row.xmin), IntOfTenths(detection_row.ymin),
       IntOfTenths(detection_row.xmax), IntOfTenths(detection_row.ymax) >>

\* The corners of the filled rectangle behind the label of a box.
label_background(corners, name) ==
    LET xmin == corners[1]
        ymin == corners[2]
        label_ymin_bg == Max(ymin - label_height - baseline, 0)
        label_ymax_bg == ymin - baseline
        label_xmin_bg == Max(xmin, 0)
    IN  << label_xmin_bg, label_ymin_bg, label_xmin_bg + label_width(name), label_ymax_bg >>

\* What draw_bounding_boxes_on_frame draws for each row: the rectangle handed
\* to cv2.rectangle, its colour, and the rectangle behind the label.
draw_bounding_boxes_on_frame(detections, is_anomaly_present) ==
    [i \in 1..Len(detections) |->
        [rect |-> box_corners(detections[i]),
         box_color |-> IF is_anomaly_trigger_fn(detections[i], is_anomaly_present)
                       THEN ANOMALY_BOX_COLOR ELSE DEFAULT_BOX_COLOR,
         label_bg |-> label_background(box_corners(detections[i]), detections[i].name)]]

\* ------------------------------------------------------------- persister
DigitChar(d) ==
    CASE d = 0 -> "0" [] d = 1 -> "1" [] d = 2 -> "2" [] d = 3 -> "3" [] d = 4 -> "4"
      [] d = 5 -> "5" [] d = 6 -> "6" [] d = 7 -> "7" [] d = 8 -> "8" [] d = 9 -> "9"

RECURSIVE Digits(_)
\* str(n) for n >= 0, as a sequence of digit characters.
Digits(n) == IF n < 10 THEN <<DigitChar(n)>> ELSE Append(Digits(n \div 10), DigitChar(n % 10))

RECURSIVE ZeroPad(_, _)
\* The format spec 0<w>d for n >= 0: at least w characters, zeros on the left.
ZeroPad(s, w) == IF Len(s) >= w THEN s ELSE ZeroPad(<<"0">> \o s, w)

\* int(timestamp_ms_val) on a timestamp kept in thousandths of a millisecond.
IntOfMillis(t) == IF t >= 0 THEN t \div 1000 ELSE -((-t) \div 1000)

\* Variant: the two numbers written without padding and without separator.
unique_filename_unpadded(frame_idx, timestamp_ms_val) ==
    <<"processed_frame_">> \o Digits(frame_idx)
        \o Digits(IntOfMillis(timestamp_ms_val)) \o <<".jpg">>

\* f"processed_frame_{frame_idx:06d}_{int(timestamp_ms_val):010d}.jpg"
unique_filename(frame_idx, timestamp_ms_val) ==
    <<"processed_frame_">> \o ZeroPad(Digits(frame_idx), 6) \o <<"_">>
        \o ZeroPad(Digits(IntOfMillis(timestamp_ms_val)), 10) \o <<".jpg">>

\* The outcomes of cv2.imwrite (and of mkdir before it).
WriteOutcomes == {"written", "returned_false", "raised"}

\* save_processed_frame: the filename on success, None (here the empty
\* sequence, which is as falsy as None) when imwrite returns false or anything
\* in the body raises.
save_processed_frame(frame_idx, timestamp_ms_val, write_outcome) ==
    IF write_outcome = "written"
    THEN unique_filename(frame_idx, timestamp_ms_val)
    ELSE <<>>

\* -------------------------------------------------------------- reporter
\* round(frame_timestamp_msec, 2) on thousandths of a ms; result in hundredths.
Round2(t) ==
    LET q == t \div 10
        r == t % 10
    IN  IF r < 5 THEN q
        ELSE IF r > 5 THEN q + 1
        ELSE IF q % 2 = 0 THEN q ELSE q + 1

alert_payload(name_saved, ts, frame_num, sampled_num, verdict, detections) ==
    [frame_filename |-> name_saved,
     timestamp_ms |-> Round2(ts),
     frame_number_original |-> frame_num,
     frame_number_processed |-> sampled_num,
     rule_config |-> [target_class |-> TARGET_CLASS_NAME, max_allowed |-> MAX_ALLOWED_TARGETS],
     detection_summary |->
         [anomaly_trigger_class_count |-> verdict.count_of_target_class,
          total_objects_detected_in_frame |-> Len(detections)],
     triggering_objects_bboxes |-> verdict.triggering_objects_list]

\* ---------------------------------------------------------------- state
VARIABLES
    pc,                       \* position in the main block / process_video_stream
    video,                    \* the source: the Detector's table for each frame
    processing_sample_rate,   \* args.sample
    conf_threshold,           \* args.conf, in hundredths
    iou_threshold,            \* args.iou, in hundredths
    opened,                   \* video_capture.isOpened()
    released,                 \* video_capture.release() has been called
    current_frame_num,        \* frames read so far
    frames_sent_to_model,     \* frames sampled so far
    first_anomaly_reported,   \* the anomaly flag
    frame_timestamp_msec,     \* CAP_PROP_POS_MSEC of the sampled frame
    detections_df,            \* detections of the sampled frame
    rule_result,              \* what check_anomaly_rules returned for it
    annotated_bgr_frame,      \* what the annotator drew on the copy
    buffers,                  \* the pixel buffers of the iteration, by name
    persister_input,          \* the buffers handed to save_processed_frame
    name_of_saved_frame,      \* what save_processed_frame returned
    saved_files,              \* files written into frame_output_dir, in order
    stdout,                   \* payloads printed to the output channel, in order
    detector_calls,           \* ordinals the Detector was invoked on
    pending_exception,        \* exception travelling out of the loop
    exit_code,                \* process exit status, -1 while running
    fault,                    \* the failure the environment produced, if any,
                              \* and the number of frames read when it happened
    read_after_release        \* a read was attempted on a released source

vars == << pc, video, processing_sample_rate, conf_threshold, iou_threshold, opened, released, current_frame_num,
           frames_sent_to_model, first_anomaly_reported, frame_timestamp_msec,
           detections_df, rule_result, annotated_bgr_frame, name_of_saved_frame,
           saved_files, stdout, detector_calls, pending_exception, exit_code,
           fault, read_after_release, buffers, persister_input >>

\* Groups of variables the steps leave alone.
sourceVars  == << video, processing_sample_rate, conf_threshold, iou_threshold >>
counterVars == << current_frame_num, frames_sent_to_model >>
frameVars   == << frame_timestamp_msec, detections_df, rule_result, annotated_bgr_frame >>
outputVars  == << name_of_saved_frame, saved_files, stdout >>
bufferVars  == << buffers, persister_input >>

\* The pixel buffers an iteration holds: the frame as read, its RGB conversion
\* and the copy made for annotation.
BufferNames == {"bgr_frame_original", "rgb_frame", "annotated_copy"}

\* A buffer holding the pixels of frame n of the source with nothing drawn on
\* it; ordinal 0 for a name that is bound to no frame (None).
FrameBuffer(n) == [ordinal |-> n, drawings |-> <<>>]

\* Variant: no copy is made, the annotator draws on the frame as read.
copy_buffer_aliased == "bgr_frame_original"

\* bgr_frame_original.copy(): the buffer the name annotated_bgr_frame is bound
\* to.
copy_buffer == "annotated_copy"

\* All sources of at most n frames.
Videos(n) == UNION { [1..k -> FrameDetections] : k \in 0..n }

\* CAP_PROP_POS_MSEC after the n-th frame has been read.
PositionMsec(n) == n * FramePeriod

\* Pairs of --conf and --iou values, in hundredths: the defaults, the two ends
\* of the accepted range, and a value outside the range on either side.
ThresholdArgs == { << 25, 45 >>, << 0, 100 >>, << -1, 45 >>, << 25, 101 >> }

\* The state when the main block starts, for a source among `videos` and a
\* --sample value among `rates`.
InitWith(videos, rates) ==
    /\ pc = "main"
    /\ video \in videos
    /\ processing_sample_rate \in rates
    /\ \E args \in ThresholdArgs :
          /\ conf_threshold = args[1]
          /\ iou_threshold = args[2]
    /\ opened = FALSE
    /\ released = FALSE
    /\ current_frame_num = 0
    /\ frames_sent_to_model = 0
    /\ first_anomaly_reported = FALSE
    /\ frame_timestamp_msec = 0
    /\ detections_df = <<>>
    /\ rule_result = NoVerdict
    /\ annotated_bgr_frame = <<>>
    /\ name_of_saved_frame = <<>>
    /\ saved_files = <<>>
    /\ stdout = <<>>
    /\ detector_calls = {}
    /\ pending_exception = "none"
    /\ exit_code = -1
    /\ fault = << "none", 0 >>
    /\ read_after_release = FALSE
    /\ buffers = [b \in BufferNames |-> FrameBuffer(0)]
    /\ persister_input = <<>>

Init == InitWith(Videos(MaxFrames), 0..MaxStride)

\* sys.exit(code)
Exit(code) ==
    /\ pc' = "exited"
    /\ exit_code' = code

\* ----------------------------------------------------------- main block
\* Variant of the threshold check: a threshold of exactly 1.0 refused.
threshold_valid_exclusive(threshold) == 0 <= threshold /\ threshold < 100

\* if args.sample < 1: sys.exit(1)
sample_rate_valid(sample) == ~(sample < 1)

\* if not (0.0 <= args.conf <= 1.0): sys.exit(1), and the same for args.iou
threshold_valid(threshold) == 0 <= threshold /\ threshold <= 100

\* Input validation and model loading of the main block: any failed check
\* ends the process with status 1 before process_video_stream is entered.
MainSetup ==
    /\ pc = "main"
    /\ \E video_is_file, output_dir_ok, model_loaded \in BOOLEAN :
          IF /\ video_is_file /\ output_dir_ok
             /\ sample_rate_valid(processing_sample_rate)
             /\ threshold_valid(conf_threshold)
             /\ threshold_valid(iou_threshold)
             /\ model_loaded
          THEN /\ pc' = "open"
               /\ UNCHANGED << exit_code, fault >>
          ELSE /\ Exit(1)
               /\ fault' = << "setup_failed", current_frame_num >>
    /\ UNCHANGED << sourceVars, bufferVars, opened, released, counterVars, first_anomaly_reported,
                    frameVars, outputVars, detector_calls, pending_exception,
                    read_after_release >>

\* cv2.VideoCapture(path); if not isOpened(): sys.exit(1)
OpenSource ==
    /\ pc = "open"
    /\ \E is_opened \in BOOLEAN :
          IF is_opened
          THEN /\ opened' = TRUE
               /\ pc' = "loop"
               /\ UNCHANGED << exit_code, fault >>
          ELSE /\ Exit(1)
               /\ fault' = << "open_failed", current_frame_num >>
               /\ UNCHANGED opened
    /\ UNCHANGED << sourceVars, bufferVars, released, counterVars, first_anomaly_reported,
                    frameVars, outputVars, detector_calls, pending_exception,
                    read_after_release >>

\* ----------------------------------------------------------- frame loop
\* while video_capture.isOpened():
LoopTest ==
    /\ pc = "loop"
    /\ pc' = IF opened THEN "read" ELSE "finally"
    /\ UNCHANGED << sourceVars, bufferVars, opened, released, counterVars, first_anomaly_reported,
                    frameVars, outputVars, detector_calls, pending_exception,
                    exit_code, fault, read_after_release >>

\* Variant: sampling counted from the frame before.
is_skipped_off_by_one(frame_num, sample_rate) == (frame_num - 1) % sample_rate # 0

\* current_frame_num % processing_sample_rate != 0  ->  continue
is_skipped(frame_num, sample_rate) == frame_num % sample_rate # 0

\* Variant: an unsuccessful read is tried again.
after_failed_read_retry == "loop"

\* Where the loop goes after an unsuccessful read: break.
after_failed_read == "finally"

\* read(); on failure break; else count the frame and apply the sampling test.
ReadFrame ==
    /\ pc = "read"
    /\ read_after_release' = (read_after_release \/ released)
    /\ \E frame_read_success \in BOOLEAN :
          /\ frame_read_success => current_frame_num < Len(video)
          /\ IF ~frame_read_success
             THEN /\ pc' = after_failed_read
                  /\ fault' = IF current_frame_num < Len(video)
                              THEN << "read_failed", current_frame_num >> ELSE fault
                  /\ buffers' = [buffers EXCEPT !["bgr_frame_original"] = FrameBuffer(0)]
                  /\ UNCHANGED counterVars
             ELSE /\ current_frame_num' = current_frame_num + 1
                  /\ buffers' = [buffers EXCEPT !["bgr_frame_original"] =
                                     FrameBuffer(current_frame_num + 1)]
                  /\ IF is_skipped(current_frame_num + 1, processing_sample_rate)
                     THEN /\ pc' = "loop"
                          /\ UNCHANGED frames_sent_to_model
                     ELSE /\ pc' = "prep"
                          /\ frames_sent_to_model' = frames_sent_to_model + 1
                  /\ UNCHANGED fault
    /\ UNCHANGED << sourceVars, persister_input, opened, released,
                    first_anomaly_reported, frameVars, outputVars, detector_calls,
                    pending_exception, exit_code >>

\* Timestamp query and BGR-to-RGB conversion, outside the per-frame handler:
\* a failure here leaves the loop as an exception.
PrepareFrame ==
    /\ pc = "prep"
    /\ \E ok \in BOOLEAN :
          IF ok
          THEN /\ frame_timestamp_msec' = PositionMsec(current_frame_num)
               /\ buffers' = [buffers EXCEPT !["rgb_frame"] =
                                  buffers["bgr_frame_original"]]
               /\ pc' = "detect"
               /\ UNCHANGED << pending_exception, fault >>
          ELSE /\ pending_exception' = "Exception"
               /\ pc' = "finally"
               /\ fault' = << "prep_raised", current_frame_num >>
               /\ UNCHANGED << frame_timestamp_msec, buffers >>
    /\ UNCHANGED << sourceVars, persister_input, opened, released, counterVars, first_anomaly_reported,
                    detections_df, rule_result, annotated_bgr_frame, outputVars,
                    detector_calls, exit_code, read_after_release >>

\* yolo_model_instance(rgb_frame); .pandas().xyxy[0]
RunInference ==
    /\ pc = "detect"
    /\ detector_calls' = detector_calls \cup {current_frame_num}
    /\ \E ok \in BOOLEAN :
          IF ok
          THEN /\ detections_df' = video[current_frame_num]
               /\ pc' = "rules"
               /\ UNCHANGED fault
          ELSE /\ pc' = "except"
               /\ fault' = << "detect_raised", current_frame_num >>
               /\ UNCHANGED detections_df
    /\ UNCHANGED << sourceVars, bufferVars, opened, released, counterVars, first_anomaly_reported,
                    frame_timestamp_msec, rule_result, annotated_bgr_frame, outputVars,
                    pending_exception, exit_code, read_after_release >>

\* check_anomaly_rules(detections_df)
ApplyRules ==
    /\ pc = "rules"
    /\ \E ok \in BOOLEAN :
          IF ok
          THEN /\ rule_result' = check_anomaly_rules(detections_df)
               /\ pc' = "annotate"
               /\ UNCHANGED fault
          ELSE /\ pc' = "except"
               /\ fault' = << "rules_raised", current_frame_num >>
               /\ UNCHANGED rule_result
    /\ UNCHANGED << sourceVars, bufferVars, opened, released, counterVars, first_anomaly_reported,
                    frame_timestamp_msec, detections_df, annotated_bgr_frame, outputVars,
                    detector_calls, pending_exception, exit_code, read_after_release >>

\* annotated_bgr_frame = bgr_frame_original.copy(); draw_bounding_boxes_on_frame(...)
AnnotateFrame ==
    /\ pc = "annotate"
    /\ \E ok \in BOOLEAN :
          IF ok
          THEN /\ annotated_bgr_frame' =
                      draw_bounding_boxes_on_frame(detections_df, rule_result.is_anomaly)
               /\ buffers' =
                      [ [buffers EXCEPT ![copy_buffer] = buffers["bgr_frame_original"]]
                          EXCEPT ![copy_buffer].drawings = annotated_bgr_frame' ]
               /\ pc' = "check"
               /\ UNCHANGED fault
          ELSE /\ pc' = "except"
               /\ fault' = << "annotate_raised", current_frame_num >>
               /\ UNCHANGED << annotated_bgr_frame, buffers >>
    /\ UNCHANGED << sourceVars, persister_input, opened, released, counterVars, first_anomaly_reported,
                    frame_timestamp_msec, detections_df, rule_result, outputVars,
                    detector_calls, pending_exception, exit_code, read_after_release >>

\* Variant: the verdict is not consulted.
should_report_any(is_anomaly_present, already_reported) == ~already_reported

\* if is_anomaly_present and not first_anomaly_reported:
should_report(is_anomaly_present, already_reported) ==
    is_anomaly_present /\ ~already_reported

\* The test that opens the reporting branch; the flag is set on entry.
CheckFirstAnomaly ==
    /\ pc = "check"
    /\ IF should_report(rule_result.is_anomaly, first_anomaly_reported)
       THEN /\ first_anomaly_reported' = TRUE
            /\ pc' = "save"
       ELSE /\ pc' = "loop"
            /\ UNCHANGED first_anomaly_reported
    /\ UNCHANGED << sourceVars, bufferVars, opened, released, counterVars, frameVars, outputVars,
                    detector_calls, pending_exception, exit_code, fault,
                    read_after_release >>

\* name_of_saved_frame = save_processed_frame(...)
SaveFrame ==
    /\ pc = "save"
    /\ \E write_outcome \in WriteOutcomes :
          /\ name_of_saved_frame' =
                 save_processed_frame(current_frame_num, frame_timestamp_msec, write_outcome)
          /\ saved_files' =
                 IF write_outcome = "written"
                 THEN Append(saved_files,
                             unique_filename(current_frame_num, frame_timestamp_msec))
                 ELSE saved_files
          /\ fault' = IF write_outcome = "written" THEN fault
                      ELSE << "save_failed", current_frame_num >>
    /\ persister_input' =
           Append(persister_input, [buffer |-> copy_buffer, frame |-> buffers[copy_buffer]])
    /\ pc' = "emit"
    /\ UNCHANGED << sourceVars, buffers, opened, released, counterVars, first_anomaly_reported,
                    frameVars, stdout, detector_calls, pending_exception, exit_code,
                    read_after_release >>

\* Variant: the result of the save is not consulted.
may_emit_always(name_saved) == TRUE

\* if name_of_saved_frame:
may_emit(name_saved) == name_saved # <<>>

\* Build the payload and print it, or log that no alert is generated.
EmitAlert ==
    /\ pc = "emit"
    /\ IF may_emit(name_of_saved_frame)
       THEN \E ok \in BOOLEAN :
               IF ok
               THEN /\ stdout' = Append(stdout,
                           alert_payload(name_of_saved_frame, frame_timestamp_msec,
                                         current_frame_num, frames_sent_to_model,
                                         rule_result, detections_df))
                    /\ pc' = "reported"
                    /\ UNCHANGED fault
               ELSE /\ pc' = "except"
                    /\ fault' = << "emit_raised", current_frame_num >>
                    /\ UNCHANGED stdout
       ELSE /\ pc' = "reported"
            /\ UNCHANGED << stdout, fault >>
    /\ UNCHANGED << sourceVars, bufferVars, opened, released, counterVars, first_anomaly_reported,
                    frameVars, name_of_saved_frame, saved_files, detector_calls,
                    pending_exception, exit_code, read_after_release >>

\* Variant: the loop continues after the reporting branch.
after_report_continue == "loop"

\* Where the loop goes after the reporting branch: break.
after_report == "finally"

\* logger.info("Stopping further processing..."); break
StopAfterFirstAnomaly ==
    /\ pc = "reported"
    /\ pc' = after_report
    /\ UNCHANGED << sourceVars, bufferVars, opened, released, counterVars, first_anomaly_reported,
                    frameVars, outputVars, detector_calls, pending_exception,
                    exit_code, fault, read_after_release >>

\* Variant: the loop continues after the per-frame handler.
after_frame_exception_continue == "loop"

\* Where the loop goes after the per-frame handler: break.
after_frame_exception == "finally"

\* except Exception as frame_processing_exception: log; break
HandleFrameException ==
    /\ pc = "except"
    /\ pc' = after_frame_exception
    /\ UNCHANGED << sourceVars, bufferVars, opened, released, counterVars, first_anomaly_reported,
                    frameVars, outputVars, detector_calls, pending_exception,
                    exit_code, fault, read_after_release >>

\* The positions inside the try block of the frame loop.
LoopPositions ==
    {"loop", "read", "prep", "detect", "rules", "annotate", "check", "save", "emit",
     "reported", "except"}

\* Variant: the per-frame handler catches the interruption too.
interrupt_target_swallowed == "except"

\* Which handler of the frame loop takes a KeyboardInterrupt: none does
\* ("except Exception" does not match it), so it leaves through finally.
interrupt_target == "finally"

\* A KeyboardInterrupt raised while the frame loop runs.
Interrupt ==
    /\ pc \in LoopPositions
    /\ pending_exception' = IF interrupt_target = "finally" THEN "KeyboardInterrupt"
                            ELSE pending_exception
    /\ pc' = interrupt_target
    /\ fault' = << "interrupt", current_frame_num >>
    /\ UNCHANGED << sourceVars, bufferVars, opened, released, counterVars, first_anomaly_reported,
                    frameVars, outputVars, detector_calls, exit_code,
                    read_after_release >>

\* Variant: the source is not released.
release_in_finally_never(is_opened) == FALSE

\* if video_capture.isOpened(): video_capture.release()
release_in_finally(is_opened) == is_opened

\* finally: release the source, then let a pending exception continue.
Finally ==
    /\ pc = "finally"
    /\ IF release_in_finally(opened)
       THEN /\ opened' = FALSE
            /\ released' = TRUE
       ELSE UNCHANGED << opened, released >>
    /\ pc' = IF pending_exception = "none" THEN "summary" ELSE "propagate"
    /\ UNCHANGED << sourceVars, bufferVars, counterVars, first_anomaly_reported, frameVars,
                    outputVars, detector_calls, pending_exception, exit_code, fault,
                    read_after_release >>

\* Variant: the status tells whether an anomaly was reported.
final_exit_status_by_flag(anomaly_reported) == IF anomaly_reported THEN 2 ELSE 0

\* The status process_video_stream ends with: sys.exit(0) whatever the flag.
final_exit_status(anomaly_reported) == 0

\* Summary logging and sys.exit(0); the main block re-raises SystemExit.
Summary ==
    /\ pc = "summary"
    /\ Exit(final_exit_status(first_anomaly_reported))
    /\ UNCHANGED << sourceVars, bufferVars, opened, released, counterVars, first_anomaly_reported,
                    frameVars, outputVars, detector_calls, pending_exception, fault,
                    read_after_release >>

\* Variant: an exception that reaches the main block ends the run with
\* status 0.
main_exit_status_contained(exception) ==
    IF exception = "KeyboardInterrupt" THEN 130 ELSE 0

\* The handlers of the main block around process_video_stream.
main_exit_status(exception) ==
    IF exception = "KeyboardInterrupt" THEN 130 ELSE 1

MainHandler ==
    /\ pc = "propagate"
    /\ Exit(main_exit_status(pending_exception))
    /\ UNCHANGED << sourceVars, bufferVars, opened, released, counterVars, first_anomaly_reported,
                    frameVars, outputVars, detector_calls, pending_exception, fault,
                    read_after_release >>

Next ==
    \/ MainSetup
    \/ OpenSource
    \/ LoopTest
    \/ ReadFrame
    \/ PrepareFrame
    \/ RunInference
    \/ ApplyRules
    \/ AnnotateFrame
    \/ CheckFirstAnomaly
    \/ SaveFrame
    \/ EmitAlert
    \/ StopAfterFirstAnomaly
    \/ HandleFrameException
    \/ Interrupt
    \/ Finally
    \/ Summary
    \/ MainHandler

Spec == Init /\ [][Next]_vars

\* ------------------------------------------------ runs on one rich frame
\* Rows the Detector may return, and every table of at most MaxDetections rows.
MaxDetections == 3
DetectionRows == {P1, P2, P3, Q1, K1, M1}
RuleInputs == UNION { [1..k -> DetectionRows] : k \in 0..MaxDetections }

\* Runs over a source of one frame with any such table, every frame sampled.
InitRule == InitWith({ <<d>> : d \in RuleInputs }, {1})
SpecRule == InitRule /\ [][Next]_vars

TypeOK ==
    /\ pc \in LoopPositions \cup {"main", "open", "finally", "summary", "propagate", "exited"}
    /\ exit_code \in {-1, 0, 1, 130}
    /\ pending_exception \in {"none", "Exception", "KeyboardInterrupt"}
    /\ current_frame_num \in 0..Len(video)
    /\ Len(stdout) <= 1

\* =============================================================== claims
FaultKind  == fault[1]
FaultFrame == fault[2]
Exited     == pc = "exited"

\* Number of rows of a table whose class is exactly the target class.
TargetCount(dets) ==
    Cardinality({ i \in DOMAIN dets : dets[i].name = TARGET_CLASS_NAME })

\* Frame n of the source violates the rule.
ViolatesRule(n) == TargetCount(video[n]) > MAX_ALLOWED_TARGETS

\* The positive multiples of the stride up to n.
Multiples(stride, n) == { k \in 1..n : k % stride = 0 }

\* The sampled frames of the source that violate the rule, and the first one
\* (0 when there is none).
ViolatingSampled ==
    { n \in Multiples(processing_sample_rate, Len(video)) : ViolatesRule(n) }
FirstViolating ==
    IF ViolatingSampled = {} THEN 0
    ELSE CHOOSE n \in ViolatingSampled : \A m \in ViolatingSampled : n <= m

\* The run went through without any failure or interruption.
NoFault == FaultKind = "none"

\* A record of the output channel references frame f.
References(record, f) == record.frame_number_original = f

\* ---------------------------------------------------------------- C1
\* C1 as stated: at most one record in every run, and a run that completes
\* (status 0, nothing raised, no interruption) over a source in which several
\* sampled frames violate the rule has emitted exactly one record, which
\* references the first of them.
C1_AsStated ==
    /\ Len(stdout) <= 1
    /\ ( /\ Exited /\ exit_code = 0
         /\ FaultKind \in {"none", "save_failed"}
         /\ Cardinality(ViolatingSampled) >= 2 )
       => /\ Len(stdout) = 1
          /\ References(stdout[1], FirstViolating)

\* C1 (amended): at most one record is ever written; any record written
\* references the first violating sampled frame; and a run in which a sampled
\* frame violates the rule and nothing fails (the triggering frame is persisted,
\* nothing raises, no interruption) ends with exactly one record.
C1_FirstAnomalyWins ==
    /\ Len(stdout) <= 1
    /\ \A i \in DOMAIN stdout :
          /\ FirstViolating # 0
          /\ References(stdout[i], FirstViolating)
    /\ (Exited /\ NoFault /\ ViolatingSampled # {}) => Len(stdout) = 1
    /\ FaultKind = "save_failed" => stdout = <<>>

C1_Witness ==
    /\ Exited /\ NoFault
    /\ processing_sample_rate = 1
    /\ Cardinality(ViolatingSampled) >= 2
    /\ Len(video) > FirstViolating
    /\ Len(stdout) = 1
    /\ References(stdout[1], FirstViolating)

\* ---------------------------------------------------------------- C2
\* C2: every record on the output channel carries the filename the save
\* returned, that file has been written and is named after the frame the record
\* references; once persistence of the triggering frame has failed, no record
\* and no file exist, no further frame is read and the save is not entered again.
C2_AlertImpliesSavedFrame ==
    /\ \A i \in DOMAIN stdout :
          /\ stdout[i].frame_filename # <<>>
          /\ stdout[i].frame_filename = name_of_saved_frame
          /\ \E j \in DOMAIN saved_files : saved_files[j] = stdout[i].frame_filename
          /\ stdout[i].frame_filename =
                 unique_filename(stdout[i].frame_number_original,
                                 PositionMsec(stdout[i].frame_number_original))
    /\ FaultKind = "save_failed" =>
          /\ stdout = <<>>
          /\ saved_files = <<>>
          /\ name_of_saved_frame = <<>>
          /\ current_frame_num = FaultFrame
          /\ pc \in {"emit", "reported", "finally", "summary", "exited"}
          /\ Exited => exit_code = 0

C2_Witness ==
    /\ Exited
    /\ FaultKind = "save_failed"
    /\ current_frame_num < Len(video)
    /\ stdout = <<>>

\* ---------------------------------------------------------------- C3
\* C3 as stated: at the end of a run that was not interrupted, the Detector
\* has been invoked on exactly the multiples of the stride up to frames_read.
C3_AsStated ==
    (Exited /\ released /\ FaultKind # "interrupt") =>
        detector_calls = Multiples(processing_sample_rate, current_frame_num)

\* C3 (amended): the Detector is only ever invoked on multiples of the stride
\* up to frames_read, and at the end of the run on every such multiple below
\* frames_read; frames_read itself is missing only when the run was ended on
\* that sampled frame before the Detector call (timestamp query or colour
\* conversion raised, or an interruption arrived).
C3_SamplingSet ==
    /\ processing_sample_rate >= 1 =>
          /\ detector_calls \subseteq Multiples(processing_sample_rate, current_frame_num)
          /\ Multiples(processing_sample_rate, current_frame_num - 1) \subseteq detector_calls
    /\ (Exited /\ released /\ FaultKind \notin {"prep_raised", "interrupt"}) =>
          detector_calls = Multiples(processing_sample_rate, current_frame_num)

C3_Witness ==
    /\ Exited /\ NoFault
    /\ processing_sample_rate = 2
    /\ current_frame_num >= 3
    /\ detector_calls = {2}

\* ---------------------------------------------------------------- C4
\* The verdict in rule_result is the one of the table in detections_df.
RuleEvaluated == pc \in {"annotate", "check", "save", "emit", "reported"}

\* C4: is_anomaly holds exactly when the number of rows whose class is exactly
\* the target class exceeds max_allowed, and the matched count is that number.
C4_RuleVerdict ==
    RuleEvaluated =>
        /\ rule_result.is_anomaly <=> (TargetCount(detections_df) > MAX_ALLOWED_TARGETS)
        /\ rule_result.count_of_target_class = TargetCount(detections_df)

C4_Witness ==
    /\ RuleEvaluated
    /\ TargetCount(detections_df) = MAX_ALLOWED_TARGETS
    /\ \E i \in DOMAIN detections_df : detections_df[i].name = "Person"
    /\ ~rule_result.is_anomaly
    /\ rule_result.count_of_target_class = MAX_ALLOWED_TARGETS

\* ---------------------------------------------------------------- C5
RECURSIVE MatchingRows(_)
\* The rows of a table whose class is the target class, in the table's order.
MatchingRows(dets) ==
    IF dets = <<>> THEN <<>>
    ELSE (IF Head(dets).name = TARGET_CLASS_NAME THEN <<Head(dets)>> ELSE <<>>)
             \o MatchingRows(Tail(dets))

\* A returned dictionary is the given row.
IsRow(object, row) ==
    /\ object.class_name = row.name
    /\ object.confidence = Round4(row.confidence)
    /\ << object.xmin, object.ymin, object.xmax, object.ymax >> =
           << IntOfTenths(row.xmin), IntOfTenths(row.ymin),
              IntOfTenths(row.xmax), IntOfTenths(row.ymax) >>

\* A returned list is the matching rows of a table, in order.
IsMatchingSubsequence(list, dets) ==
    /\ Len(list) = Len(MatchingRows(dets))
    /\ \A i \in DOMAIN list : IsRow(list[i], MatchingRows(dets)[i])

\* C5 as stated: anomalous or not, the returned list is the matching
\* subsequence, so its length is the matched count.
C5_AsStated ==
    RuleEvaluated =>
        /\ IsMatchingSubsequence(rule_result.triggering_objects_list, detections_df)
        /\ Len(rule_result.triggering_objects_list) = rule_result.count_of_target_class

\* C5 (amended): when the verdict is an anomaly the returned list is the
\* matching subsequence in the Detector's order (length = matched count); when
\* it is not, the list is empty whatever the matched count.
C5_TriggeringList ==
    RuleEvaluated =>
        IF rule_result.is_anomaly
        THEN /\ IsMatchingSubsequence(rule_result.triggering_objects_list, detections_df)
             /\ Len(rule_result.triggering_objects_list) = rule_result.count_of_target_class
        ELSE rule_result.triggering_objects_list = <<>>

C5_Witness ==
    /\ RuleEvaluated
    /\ rule_result.is_anomaly
    /\ Len(detections_df) = 3
    /\ Len(rule_result.triggering_objects_list) = 2
    /\ detections_df[2].name # TARGET_CLASS_NAME
    /\ detections_df[1] # detections_df[3]

\* ---------------------------------------------------------------- C6
\* The ordinal a saved file is named after (characters 2..7 of the name).
CarriesOrdinal(filename, f) ==
    /\ Len(filename) >= 7
    /\ SubSeq(filename, 2, 7) = ZeroPad(Digits(f), 6)

\* What is left behind for triggering frame f: one file, one record.
ReportedFor(f) ==
    /\ Len(saved_files) = 1
    /\ CarriesOrdinal(saved_files[1], f)
    /\ Len(stdout) = 1
    /\ References(stdout[1], f)
    /\ stdout[1].detection_summary.anomaly_trigger_class_count = TargetCount(video[f])

\* The loop halted at frame f.
HaltedAt(f) ==
    /\ f # 0
    /\ current_frame_num = f
    /\ detector_calls = Multiples(processing_sample_rate, f)

\* C6 as stated: a run that evaluated its first violating sampled frame and
\* completed (nothing raised, no interruption) halted at that frame and left
\* exactly one file and one record for it.
C6_AsStated ==
    (Exited /\ first_anomaly_reported /\ FaultKind \in {"none", "save_failed"}) =>
        /\ HaltedAt(FirstViolating)
        /\ ReportedFor(FirstViolating)

\* C6 (amended): from the moment the first violating sampled frame f has been
\* evaluated, the Detector has been invoked exactly on the multiples of the
\* stride up to f and frames_read stays f; at most one file is ever saved; a
\* run that ends without failure leaves exactly one file carrying ordinal f and
\* one record with frame_number_original = f and the target-class count of
\* frame f; when persisting frame f fails, no file and no record are left.
C6_HaltAtFirstViolation ==
    /\ first_anomaly_reported => HaltedAt(FirstViolating)
    /\ Len(saved_files) <= 1
    /\ (Exited /\ first_anomaly_reported /\ NoFault) => ReportedFor(FirstViolating)
    /\ (Exited /\ NoFault /\ FirstViolating # 0) => first_anomaly_reported
    /\ FaultKind = "save_failed" => (saved_files = <<>> /\ stdout = <<>>)

C6_Witness ==
    /\ Exited /\ NoFault
    /\ processing_sample_rate = 2
    /\ Len(video) > FirstViolating
    /\ FirstViolating = 2 * processing_sample_rate
    /\ detector_calls = {2, 4}
    /\ ReportedFor(4)
    /\ stdout[1].detection_summary.anomaly_trigger_class_count = 2

\* ---------------------------------------------------------------- C7
PerFrameFaults == {"detect_raised", "rules_raised", "annotate_raised"}

\* C7: after the Detector, the rule evaluation or the annotation raised on
\* sampled frame n, the failure is handled inside the loop: no further frame is
\* read (frames_read stays n), nothing is on the output channel, no file is
\* saved, and the process exits with status 0.
C7_PerFrameFailureContained ==
    FaultKind \in PerFrameFaults =>
        /\ current_frame_num = FaultFrame
        /\ stdout = <<>>
        /\ saved_files = <<>>
        /\ pending_exception = "none"
        /\ pc \in {"except", "finally", "summary", "exited"}
        /\ Exited => exit_code = 0

C7_Witness ==
    /\ Exited
    /\ FaultKind = "detect_raised"
    /\ processing_sample_rate = 1
    /\ FaultFrame >= 2
    /\ current_frame_num = FaultFrame
    /\ current_frame_num < Len(video)
    /\ exit_code = 0

\* ---------------------------------------------------------------- C8
\* C8: a source that was opened is released before the process exits, on
\* every way out of the loop, and no read is attempted on a released source.
C8_SourceReleased ==
    /\ Exited => ~opened
    /\ (Exited /\ FaultKind \notin {"setup_failed", "open_failed"}) => released
    /\ released => pc \in {"summary", "propagate", "exited"}
    /\ ~read_after_release

C8_Witness ==
    /\ Exited
    /\ released
    /\ FaultKind = "prep_raised"
    /\ exit_code = 1

\* ---------------------------------------------------------------- C9
\* C9: an interruption arriving while the frame loop runs leaves the loop as a
\* KeyboardInterrupt (the per-frame handler does not take it), the source is
\* released before the main block handles it, the process exits with status
\* 130, and at most one record is on the output channel.
C9_InterruptExits130 ==
    FaultKind = "interrupt" =>
        /\ pending_exception = "KeyboardInterrupt"
        /\ pc \in {"finally", "propagate", "exited"}
        /\ pc \in {"propagate", "exited"} => (released /\ ~opened)
        /\ Exited => exit_code = 130
        /\ Len(stdout) <= 1

C9_Witness ==
    /\ Exited
    /\ FaultKind = "interrupt"
    /\ exit_code = 130
    /\ released
    /\ Len(stdout) = 1

\* ---------------------------------------------------------------- C10
\* The exit status each kind of run ends with.
StatusFor(kind) ==
    CASE kind \in {"setup_failed", "open_failed", "prep_raised"} -> 1
      [] kind = "interrupt" -> 130
      [] OTHER -> 0

\* C10: the exit status is decided by what failed, never by what the Detector
\* returned: a run without failure exits 0 with or without a record, so runs
\* that differ only in the Detector's results exit alike.
C10_ExitCodeHidesAnomaly ==
    Exited =>
        /\ exit_code = StatusFor(FaultKind)
        /\ NoFault => exit_code = 0
        /\ (NoFault /\ ViolatingSampled = {}) => (stdout = <<>> /\ current_frame_num = Len(video))
        /\ (NoFault /\ ViolatingSampled # {}) => Len(stdout) = 1

C10_Witness ==
    /\ Exited /\ NoFault
    /\ exit_code = 0
    /\ Len(stdout) = 1
    /\ first_anomaly_reported

\* ---------------------------------------------------------------- C11
\* C11: a run without failure over a source in which no sampled frame violates
\* the rule reads every frame, leaves the output channel and the output
\* directory empty, ends with the anomaly flag false and exits with status 0;
\* a file is only ever saved once a sampled frame that violates the rule has
\* been read, and never more than one.
C11_QuietRun ==
    /\ (Exited /\ NoFault /\ ViolatingSampled = {}) =>
          /\ current_frame_num = Len(video)
          /\ stdout = <<>>
          /\ saved_files = <<>>
          /\ ~first_anomaly_reported
          /\ exit_code = 0
    /\ saved_files # <<>> =>
          /\ Len(saved_files) = 1
          /\ FirstViolating # 0
          /\ current_frame_num = FirstViolating

C11_Witness ==
    /\ Exited /\ NoFault
    /\ processing_sample_rate = 1
    /\ Len(video) >= 3
    /\ \A n \in DOMAIN video : video[n] = <<>>
    /\ current_frame_num = Len(video)
    /\ detector_calls = DOMAIN video
    /\ stdout = <<>> /\ saved_files = <<>>
    /\ exit_code = 0

\* ---------------------------------------------------------------- C12
\* The arguments pass the numerical checks of the main block.
ArgsValid ==
    /\ sample_rate_valid(processing_sample_rate)
    /\ threshold_valid(conf_threshold)
    /\ threshold_valid(iou_threshold)

\* C12: a run whose setup check failed or whose source could not be opened
\* exits with status 1 without having read a frame, invoked the Detector,
\* saved a file or written a record; a stride below 1 or a confidence or IoU
\* threshold outside [0, 1] never gets past the main block, so the source is
\* never opened for it; the ends 0 and 1 of the range are accepted.
C12_SetupFailureExits1 ==
    /\ FaultKind \in {"setup_failed", "open_failed"} =>
          /\ Exited
          /\ exit_code = 1
          /\ current_frame_num = 0
          /\ frames_sent_to_model = 0
          /\ detector_calls = {}
          /\ saved_files = <<>>
          /\ stdout = <<>>
          /\ ~opened /\ ~released
    /\ ~ArgsValid =>
          /\ pc \in {"main", "exited"}
          /\ Exited => (FaultKind = "setup_failed" /\ exit_code = 1)
    /\ (Exited /\ FaultKind = "none") => ArgsValid
    /\ (processing_sample_rate >= 1
          /\ conf_threshold \in 0..100 /\ iou_threshold \in 0..100) => ArgsValid

C12_Witness ==
    /\ Exited
    /\ FaultKind = "setup_failed"
    /\ processing_sample_rate = 0
    /\ threshold_valid(conf_threshold) /\ threshold_valid(iou_threshold)
    /\ Len(video) >= 1
    /\ exit_code = 1
    /\ current_frame_num = 0

\* ---------------------------------------------------------------- C20
\* The relation between the two counters, the source and the records.
CountersAgree ==
    /\ current_frame_num \in 0..Len(video)
    /\ frames_sent_to_model \in 0..current_frame_num
    /\ (processing_sample_rate >= 1 /\ (pc = "loop" \/ Exited)) =>
          frames_sent_to_model = current_frame_num \div processing_sample_rate
    /\ \A i \in DOMAIN stdout :
          /\ stdout[i].frame_number_original =
                stdout[i].frame_number_processed * processing_sample_rate
          /\ stdout[i].frame_number_original = current_frame_num
          /\ stdout[i].frame_number_processed = frames_sent_to_model

\* No step decreases a counter, and a step adds at most one to either.
CountersGrow ==
    /\ current_frame_num' \in {current_frame_num, current_frame_num + 1}
    /\ frames_sent_to_model' \in {frames_sent_to_model, frames_sent_to_model + 1}
    /\ frames_sent_to_model' # frames_sent_to_model =>
          current_frame_num' = current_frame_num + 1

C16_AsStated ==
    (Exited /\ exit_code = 0 /\ FaultKind \in {"none", "save_failed"}) =>
        /\ first_anomaly_reported <=> stdout # <<>>
        /\ FaultKind = "save_failed" => ~first_anomaly_reported

\* What holds of the flag in every state.
FlagFollowsBranch ==
    /\ stdout # <<>> => first_anomaly_reported
    /\ pc \in {"save", "emit", "reported"} => first_anomaly_reported
    /\ first_anomaly_reported =>
          /\ FirstViolating # 0
          /\ current_frame_num = FirstViolating
    /\ FaultKind = "save_failed" =>
          /\ first_anomaly_reported
          /\ stdout = <<>>
          /\ saved_files = <<>>
    /\ (Exited /\ NoFault) => (first_anomaly_reported <=> Len(stdout) = 1)

\* The only step that changes the flag is the entry into the reporting branch,
\* taken before anything has been saved or written.
FlagSetOnEntry ==
    first_anomaly_reported' # first_anomaly_reported =>
        /\ ~first_anomaly_reported /\ first_anomaly_reported'
        /\ pc = "check" /\ pc' = "save"
        /\ saved_files = <<>> /\ stdout = <<>>
        /\ UNCHANGED << saved_files, stdout >>

\* C16 (amended): the flag is set on entry into the reporting branch, before
\* the Persister is called; a record implies the flag, the flag implies that
\* the first violating sampled frame was reached, a failed persist leaves the
\* flag true with no record and no file, and in a run without failure the flag
\* is true exactly when one record was written.
C16_FlagSetBeforePersist == [](FlagFollowsBranch) /\ [][FlagSetOnEntry]_vars

C16_Witness ==
    /\ Exited
    /\ exit_code = 0
    /\ FaultKind = "save_failed"
    /\ first_anomaly_reported
    /\ stdout = <<>>
    /\ saved_files = <<>>

\* ---------------------------------------------------------------- C15
\* Ordinals and timestamps (in thousandths of a millisecond) the filename is
\* examined on: one and two digits, the last ordinal of six digits and the
\* first of seven, timestamps that differ only in their fraction.
SampleOrdinals   == {0, 1, 7, 10, 11, 110, 999999, 1000000}
SampleTimestamps == {0, 999, 1000, 1001, 1999, 10000, 11000, 110000, 33367,
                     66734, 1000000999, 2147483000}

DigitChars == { DigitChar(d) : d \in 0..9 }

\* The name has the form processed_frame_<6 digits>_<10 digits>.jpg.
PaddedForm(name) ==
    /\ Len(name) = 19
    /\ name[1] = "processed_frame_"
    /\ \A i \in 2..7 : name[i] \in DigitChars
    /\ name[8] = "_"
    /\ \A i \in 9..18 : name[i] \in DigitChars
    /\ name[19] = ".jpg"

\* On the sample pairs: the name depends on the timestamp through its integer
\* part only, equal (ordinal, integer part) pairs give equal names and
\* different pairs give different names; ordinals below one million give the
\* padded form, and the digits read back as the two numbers.
FilenameIsInjective ==
    \A i1, i2 \in SampleOrdinals : \A t1, t2 \in SampleTimestamps :
        /\ unique_filename(i1, t1) = unique_filename(i1, 1000 * IntOfMillis(t1))
        /\ (unique_filename(i1, t1) = unique_filename(i2, t2)) <=>
              (i1 = i2 /\ IntOfMillis(t1) = IntOfMillis(t2))
        /\ i1 < 1000000 => PaddedForm(unique_filename(i1, t1))
        /\ SubSeq(unique_filename(7, 33367), 2, 7) = <<"0", "0", "0", "0", "0", "7">>
        /\ SubSeq(unique_filename(7, 33367), 9, 18) =
              <<"0", "0", "0", "0", "0", "0", "0", "0", "3", "3">>

\* C15: the name returned by save_processed_frame and the name of the file it
\* wrote are the padded-form name of (ordinal of the triggering frame, integer
\* part of its timestamp), which the source and the stride determine; it has
\* no directory part; the name is the same for equal pairs and different for
\* different pairs.
C15_FilenameDeterministic ==
    /\ FilenameIsInjective
    /\ \A i \in DOMAIN saved_files :
          /\ saved_files[i] =
                unique_filename(FirstViolating, PositionMsec(FirstViolating))
          /\ PaddedForm(saved_files[i])
    /\ (pc \in {"emit", "reported"} /\ FaultKind # "save_failed") =>
          /\ name_of_saved_frame =
                unique_filename(current_frame_num, frame_timestamp_msec)
          /\ saved_files = << name_of_saved_frame >>
          /\ \A i \in DOMAIN name_of_saved_frame : name_of_saved_frame[i] # "/"
    /\ \A i \in DOMAIN stdout : stdout[i].frame_filename = saved_files[1]

C15_Witness ==
    /\ pc = "reported"
    /\ processing_sample_rate = 2
    /\ current_frame_num = 4
    /\ name_of_saved_frame =
          << "processed_frame_", "0", "0", "0", "0", "0", "4", "_",
             "0", "0", "0", "0", "0", "0", "0", "1", "3", "3", ".jpg" >>
    /\ saved_files = << name_of_saved_frame >>
    /\ Len(stdout) = 1

\* ---------------------------------------------------------------- C13
\* The annotator has drawn on the copy of the current frame.
FrameAnnotated == pc \in {"check", "save", "emit", "reported"}

\* The corners of a row are out of order.
Malformed(row) == row.xmin > row.xmax \/ row.ymin > row.ymax

\* A rectangle whose corners are ordered and inside the frame.
OrderedInsideFrame(rect) ==
    /\ 0 <= rect[1] /\ rect[1] <= rect[3] /\ rect[3] < frame_width
    /\ 0 <= rect[2] /\ rect[2] <= rect[4] /\ rect[4] < frame_height

C14_LabelInsideFrame ==
    FrameAnnotated =>
        \A i \in DOMAIN annotated_bgr_frame :
            LET bg == annotated_bgr_frame[i].label_bg
            IN  /\ 0 <= bg[1] /\ bg[1] <= frame_width
                /\ 0 <= bg[2] /\ bg[2] <= frame_height
                /\ 0 <= bg[3] /\ bg[3] <= frame_width
                /\ 0 <= bg[4] /\ bg[4] <= frame_height

\* ---------------------------------------------------------------- C18
\* The row is a member of the triggering detections of the verdict.
IsTriggering(row, verdict) ==
    \E k \in DOMAIN verdict.triggering_objects_list :
        IsRow(verdict.triggering_objects_list[k], row)

\* C18: on every annotated frame every row has one box, in one of the two
\* colours; the colour is the triggering colour exactly when the row is among
\* the triggering detections of the frame's verdict; on a frame that is being
\* persisted that is exactly when the class of the row is the target class,
\* and on a frame without anomaly every box has the default colour.
C18_TwoColours ==
    FrameAnnotated =>
        /\ DOMAIN annotated_bgr_frame = DOMAIN detections_df
        /\ \A i \in DOMAIN detections_df :
              LET colour == annotated_bgr_frame[i].box_color
              IN  /\ colour \in {ANOMALY_BOX_COLOR, DEFAULT_BOX_COLOR}
                  /\ colour = ANOMALY_BOX_COLOR <=>
                        IsTriggering(detections_df[i], rule_result)
                  /\ pc \in {"save", "emit", "reported"} =>
                        (colour = ANOMALY_BOX_COLOR <=>
                            detections_df[i].name = TARGET_CLASS_NAME)
                  /\ ~rule_result.is_anomaly => colour = DEFAULT_BOX_COLOR

C18_Witness ==
    /\ pc = "save"
    /\ detections_df = << P1, Q1, P2 >>
    /\ annotated_bgr_frame[1].box_color = ANOMALY_BOX_COLOR
    /\ annotated_bgr_frame[2].box_color = DEFAULT_BOX_COLOR
    /\ annotated_bgr_frame[3].box_color = ANOMALY_BOX_COLOR
    /\ ANOMALY_BOX_COLOR # DEFAULT_BOX_COLOR

\* ---------------------------------------------------------------- C19
\* In every state: nothing is drawn on the frame as read nor on the RGB frame;
\* once the annotator has run on the current frame, anomalous or not, the copy
\* holds the pixels of that frame with one drawing per detection; whatever was
\* handed to the Persister is that copy, never one of the other two buffers.
AnnotationOnCopy ==
    /\ buffers["bgr_frame_original"].drawings = <<>>
    /\ buffers["rgb_frame"].drawings = <<>>
    /\ FrameAnnotated =>
          /\ buffers["annotated_copy"].ordinal = current_frame_num
          /\ buffers["bgr_frame_original"].ordinal = current_frame_num
          /\ buffers["rgb_frame"].ordinal = current_frame_num
          /\ Len(buffers["annotated_copy"].drawings) = Len(detections_df)
          /\ buffers["annotated_copy"].drawings =
                draw_bounding_boxes_on_frame(detections_df, rule_result.is_anomaly)
    /\ Len(persister_input) <= 1
    /\ \A i \in DOMAIN persister_input :
          /\ persister_input[i].buffer = "annotated_copy"
          /\ persister_input[i].frame.ordinal = FirstViolating
          /\ persister_input[i].frame.drawings =
                draw_bounding_boxes_on_frame(video[FirstViolating], TRUE)

\* The step that follows a successful rule evaluation annotates, whatever the
\* verdict, unless it fails or is interrupted; it writes to the copy only.
AnnotationStep ==
    (pc = "annotate" /\ fault' = fault) =>
        /\ pc' = "check"
        /\ buffers'["annotated_copy"].ordinal = current_frame_num
        /\ Len(buffers'["annotated_copy"].drawings) = Len(detections_df)
        /\ buffers'["bgr_frame_original"] = buffers["bgr_frame_original"]
        /\ buffers'["rgb_frame"] = buffers["rgb_frame"]

\* C19: every sampled frame whose detection and rule evaluation succeeded is
\* annotated, anomalous or not, on a copy; the frame as read and the RGB frame
\* are left as they were; only the annotated copy reaches the Persister.
C19_AnnotateOnCopy == [](AnnotationOnCopy) /\ [][AnnotationStep]_vars

C19_Witness ==
    /\ pc = "check"
    /\ ~rule_result.is_anomaly
    /\ detections_df = << P1, Q1 >>
    /\ current_frame_num = 2
    /\ Len(buffers["annotated_copy"].drawings) = 2
    /\ buffers["bgr_frame_original"] = FrameBuffer(2)
    /\ buffers["rgb_frame"] = FrameBuffer(2)
    /\ persister_input = <<>>

\* ---------------------------------------------------------------- C17
\* Sources made of two of the tables, and the runs over them under the
\* assumption that the process keeps being scheduled: a step that can be taken
\* is eventually taken.
FairVideos == UNION { [1..k -> { <<>>, <<P2, P1, P3>> }] : k \in 0..MaxFrames }
InitFair == InitWith(FairVideos, 0..MaxStride)
SpecFair == InitFair /\ [][Next]_vars /\ WF_vars(Next)

\* The state of the Controller's state machine the run is in.
Phase ==
    IF pc \in {"main", "open"} \/ FaultKind \in {"setup_failed", "open_failed"}
    THEN "INIT"
    ELSE IF released THEN "CLOSED"
    ELSE IF pc \in {"summary", "propagate", "exited"} THEN "LEAKED"
    ELSE IF pc \in LoopPositions \ {"reported", "except"} THEN "STREAMING"
    ELSE IF stdout # <<>> THEN "ANOMALY_REPORTED"
    ELSE IF FaultKind \in {"none", "read_failed"} THEN "EXHAUSTED"
    ELSE "ABORTED"

TerminalPhases == {"ANOMALY_REPORTED", "EXHAUSTED", "ABORTED"}

\* The steps of the state machine: forward only, one terminal state per run,
\* no frame read once STREAMING has been left, CLOSED entered by the release
\* of the source in the finally clause.
PhaseStep ==
    /\ Phase = "INIT" => Phase' \in {"INIT", "STREAMING"}
    /\ Phase = "STREAMING" => Phase' \in {"STREAMING"} \cup TerminalPhases
    /\ Phase \in TerminalPhases => Phase' \in {Phase, "CLOSED"}
    /\ Phase = "CLOSED" => Phase' = "CLOSED"
    /\ Phase \in TerminalPhases \cup {"CLOSED"} =>
          /\ pc' \notin {"loop", "read"}
          /\ current_frame_num' = current_frame_num
          /\ detector_calls' = detector_calls
          /\ ~read_after_release'
    /\ (Phase # "CLOSED" /\ Phase' = "CLOSED") =>
          /\ pc = "finally"
          /\ opened /\ ~opened'
          /\ ~released /\ released'

\* C17: the run moves INIT -> STREAMING -> one of ANOMALY_REPORTED, EXHAUSTED,
\* ABORTED -> CLOSED and never backwards; after STREAMING no frame is read;
\* CLOSED is entered by releasing the source; and every run that has opened
\* its source eventually reaches CLOSED.
C17_StateMachine ==
    /\ [][PhaseStep]_vars
    /\ (Phase = "STREAMING") ~> (Phase = "CLOSED")
    /\ [](Phase = "STREAMING" => <>(Phase \in TerminalPhases))

C17_Witness ==
    /\ Phase = "CLOSED"
    /\ Exited
    /\ Len(stdout) = 1
    /\ exit_code = 0
    /\ current_frame_num < Len(video)
    /\ released /\ ~opened

\* ---------------------------------------------------------------- C21
\* C21: in every record on the output channel the list of triggering boxes is
\* as long as the reported count of the target class, that count is above the
\* configured limit and no more than the number of objects detected in the
\* frame, and every box of the list is of the configured target class.
C21_RecordConsistent ==
    \A i \in DOMAIN stdout :
        LET record == stdout[i]
            count  == record.detection_summary.anomaly_trigger_class_count
            total  == record.detection_summary.total_objects_detected_in_frame
            boxes  == record.triggering_objects_bboxes
        IN  /\ Len(boxes) = count
            /\ count > record.rule_config.max_allowed
            /\ count <= total
            /\ \A k \in DOMAIN boxes :
                  boxes[k].class_name = record.rule_config.target_class
            /\ record.rule_config.max_allowed = MAX_ALLOWED_TARGETS
            /\ record.rule_config.target_class = TARGET_CLASS_NAME
            /\ total = Len(video[record.frame_number_original])
            /\ count = TargetCount(video[record.frame_number_original])

C21_Witness ==
    /\ Len(stdout) = 1
    /\ video[1] = << K1, P2, P1 >>
    /\ stdout[1].detection_summary.total_objects_detected_in_frame = 3
    /\ stdout[1].detection_summary.anomaly_trigger_class_count = 2
    /\ Len(stdout[1].triggering_objects_bboxes) = 2
    /\ stdout[1].triggering_objects_bboxes[1].class_name = "person"
    /\ stdout[1].rule_config.max_allowed = 1

\* ---------------------------------------------------------------- C22
\* C22: when the timestamp query or the colour conversion raises on sampled
\* frame n, the frame has already been counted as sampled, the Detector is not
\* invoked on it, the per-frame handler is not entered, nothing is saved or
\* written, the exception leaves the loop through the finally clause, which
\* releases the source, and the main block ends the process with status 1.
C22_PrepFailureEscapes ==
    FaultKind = "prep_raised" =>
        /\ current_frame_num = FaultFrame
        /\ ~is_skipped(FaultFrame, processing_sample_rate)
        /\ frames_sent_to_model = FaultFrame \div processing_sample_rate
        /\ FaultFrame \notin detector_calls
        /\ pending_exception = "Exception"
        /\ pc \in {"finally", "propagate", "exited"}
        /\ stdout = <<>>
        /\ saved_files = <<>>
        /\ ~first_anomaly_reported
        /\ pc \in {"propagate", "exited"} => (released /\ ~opened)
        /\ Exited => exit_code = 1

C22_Witness ==
    /\ Exited
    /\ FaultKind = "prep_raised"
    /\ processing_sample_rate = 2
    /\ FaultFrame = 4
    /\ frames_sent_to_model = 2
    /\ detector_calls = {2}
    /\ current_frame_num < Len(video)
    /\ released
    /\ exit_code = 1

\* ---------------------------------------------------------------- C23
\* After an unsuccessful read in the middle of the source the run is where a
\* run over an exhausted source is: out of the loop with no exception pending,
\* the frame not counted, nothing on the output channel, the flag false, and
\* at the end the source released and status 0.
FailedReadIsExhaustion ==
    FaultKind = "read_failed" =>
        /\ FaultFrame < Len(video)
        /\ current_frame_num = FaultFrame
        /\ frames_sent_to_model = current_frame_num \div processing_sample_rate
        /\ detector_calls = Multiples(processing_sample_rate, current_frame_num)
        /\ pc \in {"finally", "summary", "exited"}
        /\ pending_exception = "none"
        /\ stdout = <<>>
        /\ saved_files = <<>>
        /\ ~first_anomaly_reported
        /\ Exited => (exit_code = 0 /\ released)

\* An unsuccessful read, at the end of the source or before it, leaves the
\* counters as they are and leaves the loop: no second attempt is made.
FailedReadStep ==
    (pc = "read" /\ current_frame_num' = current_frame_num /\ FaultKind' # "interrupt") =>
        /\ pc' = "finally"
        /\ UNCHANGED << frames_sent_to_model, detector_calls, pending_exception,
                        first_anomaly_reported, stdout, saved_files >>
        /\ FaultKind' \in {"none", "read_failed"}

\* C23: an unsuccessful read, mid-stream or at the end, ends the loop as
\* exhaustion does: frames_read is not incremented, the read is not retried,
\* no record is written, and the run exits with status 0 and the flag false.
C23_FailedReadEndsRun == [](FailedReadIsExhaustion) /\ [][FailedReadStep]_vars

C23_Witness ==
    /\ Exited
    /\ FaultKind = "read_failed"
    /\ processing_sample_rate = 1
    /\ FaultFrame = 1
    /\ current_frame_num = 1
    /\ Len(video) = 3
    /\ ViolatesRule(2)
    /\ stdout = <<>>
    /\ exit_code = 0
    /\ ~first_anomaly_reported

====
